---- MODULE Spec2Model ----
(***************************************************************************)
(* The Pomodoro countdown engine of src/pages/tools/pomodoro.tsx (the      *)
(* current snapshot, lines 1-506) together with the usePersistedState hook *)
(* (src/unnamed/part_000) it is built on; then the crawler of the URL map   *)
(* tool (crawlUrls, src/pages/tools/pomodoro-timer.tsx) and the encoder of *)
(* the emoji smuggler (src/pages/tools/emoji-smuggler.tsx), each with a     *)
(* specification of its own.                                               *)
(*                                                                         *)
(* One action models one event-loop task of the mounted component.  The    *)
(* tool is rendered under ReactDOM.createRoot (Layout.tsx 28):             *)
(*  - a timer callback (the interval callback, the deferred completion     *)
(*    callback) only calls setState, which queues the update; React        *)
(*    renders the queued updates in a later task, and runs the passive     *)
(*    effects of that render (the persist effect of usePersistedState and  *)
(*    the interval effect) in a task later still, or just before the next  *)
(*    render;                                                              *)
(*  - the handler of a click or of an input change is a discrete event:    *)
(*    React renders, and runs the effects of that render, before the task  *)
(*    ends.                                                                *)
(* A render applies the queued updates in the order of their setState      *)
(* calls.  State updaters are taken to run once per update (production     *)
(* React).                                                                 *)
(***************************************************************************)
EXTENDS Integers, FiniteSets, Sequences, TLC

VARIABLES
    value,      \* the PomodoroState held by useState in usePersistedState
    isDefault,  \* value is the DEFAULT_STATE object itself (Object.is identity)
    mounted,    \* the PomodoroTool component is mounted
    storage,    \* localStorage[STORAGE_KEY]: present flag and the stored snapshot
    disk,       \* how localStorage behaves: "ok", "full" (setItem throws), "disabled"
    now,        \* the reading of Date.now()
    updateQueue, \* the updates setState has queued and no render has applied yet
    effectsPending, \* the passive effects of the last render are still to run
    effectRunning,  \* the isRunning of the render whose interval effect ran last
    interval,   \* the number of live window.setInterval timers of the mounted instance
    pending,    \* setTimeout(..., 0) completion callbacks queued by the mounted instance
    orphaned,   \* queued completion callbacks of instances that were unmounted
    ticks,      \* interval callbacks run so far
    ops,        \* user and environment operations run so far; the two together
                \* are the events, of which a behaviour has MaxEvents at most
    prev,       \* history: the state the last update applied was applied to
    last,       \* history: the last update applied, its arguments, the clock then
    crawl,      \* a call of crawlUrls: its arguments, locals and position
    smuggler    \* the emoji smuggler: base, message, encoded text, decoded result

vars == <<value, isDefault, mounted, storage, disk, now, updateQueue,
          effectsPending, effectRunning, interval, pending, orphaned, ticks, ops, prev, last, crawl,
          smuggler>>

\* The variables of the Pomodoro engine, and those of the other two tools.
engineVars == <<value, isDefault, mounted, storage, disk, now, updateQueue,
                effectsPending, effectRunning, interval, pending, orphaned, ticks, ops, prev, last>>
otherTools == <<crawl, smuggler>>

\* A tool that is not in use.
Idle == [pc |-> "idle"]

-----------------------------------------------------------------------------
(* Bounds of the model *)

MaxEvents == 2
MaxSessions == 1
MaxQueue == 2
MaxLen == 2
MaxWork == 4
MaxAnchors == 2
MaxDepth == 2

(* Program constants *)

SecondsPerMinute == 60
MsPerSecond == 1000
LinkLimit == 25

Modes == {"work", "shortBreak", "longBreak"}

\* localStorage works, or setItem throws (quota exceeded), or every access to it
\* throws (storage disabled).
Disks == {"ok", "full", "disabled"}
ConfigKeys == {"work", "shortBreak", "longBreak", "sessionsBeforeLongBreak"}

\* Values the settings inputs hand to updateConfig.
ConfigValues == {1, 2}

\* Readings of the wall clock, in milliseconds.
ClockTimes == {3000, 4500, 7500}

Max(a, b) == IF a >= b THEN a ELSE b

-----------------------------------------------------------------------------
(* Pure functions of pomodoro.tsx *)

DEFAULT_CONFIG ==
    [work |-> 25, shortBreak |-> 5, longBreak |-> 15, sessionsBeforeLongBreak |-> 4]

\* Mutant: the minutes are not converted to seconds.
getDefaultTimersMinutes(config) == [m \in Modes |-> config[m]]

getDefaultTimers(config) == [m \in Modes |-> config[m] * SecondsPerMinute]

DEFAULT_STATE ==
    [config            |-> DEFAULT_CONFIG,
     activeMode        |-> "work",
     viewMode          |-> "work",
     timers            |-> getDefaultTimers(DEFAULT_CONFIG),
     isRunning         |-> FALSE,
     completedSessions |-> 0]

serializeState(state, t) ==
    [config            |-> state.config,
     activeMode        |-> state.activeMode,
     viewMode          |-> state.viewMode,
     timers            |-> state.timers,
     isRunning         |-> state.isRunning,
     completedSessions |-> state.completedSessions,
     savedAt           |-> t]

\* The PomodoroState part of a StoredState.
stateOf(stored) ==
    [config            |-> stored.config,
     activeMode        |-> stored.activeMode,
     viewMode          |-> stored.viewMode,
     timers            |-> stored.timers,
     isRunning         |-> stored.isRunning,
     completedSessions |-> stored.completedSessions]

\* Mutant: the elapsed time rounded to the nearest second instead of down.
elapsedSecondsRounded(stored, t) == (t - stored.savedAt + 500) \div MsPerSecond

\* Math.floor((Date.now() - stored.savedAt) / 1000); \div rounds down.
elapsedSeconds(stored, t) == (t - stored.savedAt) \div MsPerSecond

\* Mutant: the catch-up forgets to pause a timer it has run down to zero.
deserializeStateStillRunning(stored, t) ==
    [config            |-> stored.config,
     activeMode        |-> stored.activeMode,
     viewMode          |-> stored.viewMode,
     timers            |-> IF stored.isRunning /\ stored.savedAt # 0
                           THEN [stored.timers EXCEPT ![stored.activeMode] =
                                    Max(0, @ - elapsedSeconds(stored, t))]
                           ELSE stored.timers,
     isRunning         |-> stored.isRunning,
     completedSessions |-> stored.completedSessions]

\* The snapshots handled here were written by serializeState, so every field is
\* present and none of the ?? defaults applies.
deserializeState(stored, t) ==
    LET catchUp == stored.isRunning /\ stored.savedAt # 0
        timers  == IF catchUp
                   THEN [stored.timers EXCEPT ![stored.activeMode] =
                            Max(0, @ - elapsedSeconds(stored, t))]
                   ELSE stored.timers
        isRunning == IF catchUp /\ timers[stored.activeMode] = 0
                     THEN FALSE
                     ELSE stored.isRunning
    IN  [config            |-> stored.config,
         activeMode        |-> stored.activeMode,
         viewMode          |-> stored.viewMode,
         timers            |-> timers,
         isRunning         |-> isRunning,
         completedSessions |-> stored.completedSessions]

-----------------------------------------------------------------------------
(* State updaters of usePomodoroTimer *)

\* Mutant: every completion is counted, a break's too.
newCompletedSessionsEvery(p) == p.completedSessions + 1

newCompletedSessions(p) ==
    IF p.activeMode = "work" THEN p.completedSessions + 1 ELSE p.completedSessions

\* Mutant: the long break is decided on the count before the increment.
nextModeStaleCount(p) ==
    IF p.activeMode = "work"
    THEN IF p.completedSessions % p.config.sessionsBeforeLongBreak = 0
         THEN "longBreak"
         ELSE "shortBreak"
    ELSE "work"

nextMode(p) ==
    IF p.activeMode = "work"
    THEN IF newCompletedSessions(p) % p.config.sessionsBeforeLongBreak = 0
         THEN "longBreak"
         ELSE "shortBreak"
    ELSE "work"

\* Mutant: the finished phase is not refilled.
completionUpdaterNoRefill(p) ==
    [p EXCEPT !.isRunning = FALSE,
              !.activeMode = nextMode(p),
              !.viewMode = nextMode(p),
              !.completedSessions = newCompletedSessions(p)]

completionUpdater(p) ==
    [p EXCEPT !.isRunning = FALSE,
              !.timers = [p.timers EXCEPT ![p.activeMode] =
                              p.config[p.activeMode] * SecondsPerMinute],
              !.activeMode = nextMode(p),
              !.viewMode = nextMode(p),
              !.completedSessions = newCompletedSessions(p)]

\* Mutant: the completion is scheduled only once the timer already reads zero.
tickSchedulesLate(p) == p.timers[p.activeMode] <= 0

\* The interval callback's updater; tickSchedules tells whether it calls setTimeout.
tickSchedules(p) == p.timers[p.activeMode] <= 1

\* Mutant: the displayed phase is counted down instead of the active one.
tickUpdaterView(p) ==
    IF tickSchedules(p)
    THEN [p EXCEPT !.timers = [p.timers EXCEPT ![p.viewMode] = 0]]
    ELSE [p EXCEPT !.timers = [p.timers EXCEPT ![p.viewMode] = @ - 1]]

tickUpdater(p) ==
    IF tickSchedules(p)
    THEN [p EXCEPT !.timers = [p.timers EXCEPT ![p.activeMode] = 0]]
    ELSE [p EXCEPT !.timers = [p.timers EXCEPT ![p.activeMode] = @ - 1]]

\* Mutant: switching the view stops the timer, as the oldest switchMode did.
switchViewUpdaterStops(p, newMode) == [p EXCEPT !.viewMode = newMode, !.isRunning = FALSE]

switchViewUpdater(p, newMode) == [p EXCEPT !.viewMode = newMode]

\* Mutant: pausing also moves activeMode to the displayed phase.
toggleUpdaterAlwaysView(p) ==
    [p EXCEPT !.isRunning = ~p.isRunning, !.activeMode = p.viewMode]

toggleUpdater(p) ==
    [p EXCEPT !.isRunning = ~p.isRunning,
              !.activeMode = IF ~p.isRunning THEN p.viewMode ELSE p.activeMode]

\* Mutant: the active phase is refilled instead of the displayed one.
resetUpdaterActive(p) ==
    [p EXCEPT !.isRunning = FALSE,
              !.timers = [p.timers EXCEPT ![p.activeMode] =
                              p.config[p.activeMode] * SecondsPerMinute]]

resetUpdater(p) ==
    [p EXCEPT !.isRunning = FALSE,
              !.timers = [p.timers EXCEPT ![p.viewMode] =
                              p.config[p.viewMode] * SecondsPerMinute]]

\* Mutant: the edited phase is resized whether or not it is pristine.
updateConfigResizesAlways(p, key, v) ==
    LET newConfig == [p.config EXCEPT ![key] = v]
    IN  [p EXCEPT !.config = newConfig,
                  !.timers = [m \in Modes |->
                                 IF m = key \/ p.timers[m] = p.config[m] * SecondsPerMinute
                                 THEN newConfig[m] * SecondsPerMinute
                                 ELSE p.timers[m]]]

\* Mutant: only the phase being counted down is resized.
updateConfigResizesActiveOnly(p, key, v) ==
    LET newConfig == [p.config EXCEPT ![key] = v]
    IN  [p EXCEPT !.config = newConfig,
                  !.timers = [m \in Modes |->
                                 IF m = p.activeMode
                                    /\ p.timers[m] = p.config[m] * SecondsPerMinute
                                 THEN newConfig[m] * SecondsPerMinute
                                 ELSE p.timers[m]]]

updateConfigUpdater(p, key, v) ==
    LET newConfig == [p.config EXCEPT ![key] = v]
        updatedTimers ==
            [m \in Modes |->
                IF p.timers[m] = p.config[m] * SecondsPerMinute
                THEN newConfig[m] * SecondsPerMinute
                ELSE p.timers[m]]
    IN  [p EXCEPT !.config = newConfig, !.timers = updatedTimers]

-----------------------------------------------------------------------------
(* usePersistedState *)

\* The keys of a StoredState object.
StoredFields ==
    {"config", "activeMode", "viewMode", "timers", "isRunning", "completedSessions",
     "savedAt"}

\* The text under the key: whether there is one, whether JSON.parse accepts it,
\* which keys the parsed object has, its legacy `mode` key ("none" when it has
\* none) and the values of the keys it has.
NoItem ==
    [present |-> FALSE, parses |-> TRUE, fields |-> StoredFields, mode |-> "none",
     item |-> serializeState(DEFAULT_STATE, 0)]

Item(snapshot) ==
    [present |-> TRUE, parses |-> TRUE, fields |-> StoredFields, mode |-> "none",
     item |-> snapshot]

\* What JSON.stringify(serialize(value)) puts under the key.
persisted(v, t) == Item(serializeState(v, t))

\* Mutant: the snapshot is written with the savedAt of the snapshot it replaces.
persistEffectStale(store, v, t, d) ==
    IF d = "ok" THEN persisted(v, store.item.savedAt) ELSE store

\* The persist effect: setItem inside try/catch; a throwing setItem leaves the
\* key as it was.
persistEffect(store, v, t, d) == IF d = "ok" THEN persisted(v, t) ELSE store

\* getItem and JSON.parse both succeed.
Readable(store, d) == d # "disabled" /\ store.present /\ store.parses

\* The ?? defaults of deserializeState (pomodoro.tsx 78-86) for the keys the parsed
\* object lacks; a missing savedAt is falsy, as 0 is.
storedWithDefaults(store) ==
    LET has(k) == k \in store.fields
        config == IF has("config") THEN store.item.config ELSE DEFAULT_CONFIG
    IN  [config            |-> config,
         activeMode        |-> IF has("activeMode") THEN store.item.activeMode ELSE "work",
         viewMode          |-> IF has("viewMode") THEN store.item.viewMode ELSE "work",
         timers            |-> IF has("timers") THEN store.item.timers
                               ELSE getDefaultTimers(config),
         isRunning         |-> IF has("isRunning") THEN store.item.isRunning ELSE FALSE,
         completedSessions |-> IF has("completedSessions")
                               THEN store.item.completedSessions ELSE 0,
         savedAt           |-> IF has("savedAt") THEN store.item.savedAt ELSE 0]

\* Mutant: the initializer reads the key even when storage is disabled.
initialValueIgnoresDisk(store, d, t) ==
    IF store.present /\ store.parses
    THEN deserializeState(storedWithDefaults(store), t)
    ELSE DEFAULT_STATE

\* The useState initializer: the stored item deserialized; the default value when
\* there is none or when reading or parsing it throws.
initialValue(store, d, t) ==
    IF Readable(store, d)
    THEN deserializeState(storedWithDefaults(store), t)
    ELSE DEFAULT_STATE

Op(name) == [op |-> name, key |-> "none", arg |-> 0, mode |-> "none", savedAt |-> 0,
             at |-> now, fired |-> FALSE, hadItem |-> FALSE, scheduled |-> 0,
             rendered |-> TRUE, wroteAt |-> last.wroteAt,
             raised |-> FALSE, readFailed |-> FALSE, fields |-> StoredFields,
             legacy |-> "none", workDone |-> last.workDone]

\* The interval effect (deps [isRunning, setState]) after a render: when isRunning
\* changed, the cleanup clears the interval held in intervalRef and the effect
\* sets a new one if running; otherwise the effect does not run.
intervalEffect(wasRunning, isRunning, n) ==
    IF isRunning = wasRunning THEN n
    ELSE IF isRunning THEN 1 ELSE 0

\* A call of setState: the updater it was given, named by the operation that
\* gave it, with the arguments the updater closes over.  `eager` tells that React
\* called the updater inside setState, which it may do when the hook has no
\* update queued; otherwise the updater is called by the render.
SetState(name) ==
    [op |-> name, key |-> "none", arg |-> 0, mode |-> "none", eager |-> FALSE]

\* The updater of u applied to p; setValue(defaultValue) of clearValue gives the
\* DEFAULT_STATE object.
applyUpdate(p, u) ==
    CASE u.op = "tick"          -> tickUpdater(p)
      [] u.op = "completePhase" -> completionUpdater(p)
      [] u.op = "switchView"    -> switchViewUpdater(p, u.mode)
      [] u.op = "toggle"        -> toggleUpdater(p)
      [] u.op = "reset"         -> resetUpdater(p)
      [] u.op = "updateConfig"  -> updateConfigUpdater(p, u.key, u.arg)
      [] OTHER                  -> DEFAULT_STATE

\* The setTimeout calls the updater of u makes when it is applied to p
\* (pomodoro.tsx 198-199).
schedules(p, u) == IF u.op = "tick" /\ tickSchedules(p) THEN 1 ELSE 0

\* A render working through the queue q in order.  r holds the state so far, the
\* state the last update was applied to, the setTimeout calls made by the
\* updaters called in this render, and the tally of completed work phases.
RECURSIVE reduceQueue(_, _)
reduceQueue(r, q) ==
    IF q = <<>> THEN r
    ELSE LET u == Head(q)
             p == r.state
         IN  reduceQueue(
                 [state    |-> applyUpdate(p, u),
                  before   |-> p,
                  timeouts |-> r.timeouts + IF u.eager THEN 0 ELSE schedules(p, u),
                  workDone |-> IF u.op = "completePhase" /\ p.activeMode = "work"
                               THEN r.workDone + 1
                               ELSE IF u.op = "resetAll" THEN 0 ELSE r.workDone],
                 Tail(q))

\* The render of the queue q from the state on the hook.
rendering(q) ==
    reduceQueue([state |-> value, before |-> value, timeouts |-> 0,
                 workDone |-> last.workDone], q)

\* History of a render of q that gave r: the last update applied; `rendered`
\* tells whether the state it was applied to is the one the render before showed.
Applied(q, r) ==
    LET u == q[Len(q)]
    IN  [Op(u.op) EXCEPT !.key = u.key, !.arg = u.arg, !.mode = u.mode,
                         !.fired = (u.op = "completePhase"),
                         !.scheduled = schedules(r.before, u),
                         !.rendered = (r.before = value),
                         !.workDone = r.workDone]

\* The storage and the intervals once the passive effects still pending from the
\* last render have run: React runs them before it renders again.
flushedStorage(store) ==
    IF effectsPending THEN persistEffect(store, value, now, disk) ELSE store

flushedInterval == intervalEffect(effectRunning, value.isRunning, interval)

-----------------------------------------------------------------------------
(* Actions *)

\* The setInterval callback (pomodoro.tsx 195-210): setState with the tick updater.
TickCallback ==
    /\ mounted /\ interval > 0
    /\ \E eager \in (IF updateQueue = <<>> THEN BOOLEAN ELSE {FALSE}) :
          /\ updateQueue' = Append(updateQueue,
                                   [SetState("tick") EXCEPT !.eager = eager])
          /\ pending' = IF eager THEN pending + schedules(value, SetState("tick"))
                        ELSE pending
    /\ ticks' = ticks + 1
    /\ UNCHANGED <<value, isDefault, mounted, storage, disk, now, effectsPending,
                   effectRunning, interval, orphaned, ops, prev, last, otherTools>>

Tick == ops + ticks < MaxEvents /\ TickCallback

\* The deferred completion callback (pomodoro.tsx 162-190): playNotification, then
\* setState with the completion updater.
CompletePhase ==
    /\ mounted /\ pending > 0
    /\ pending' = pending - 1
    /\ updateQueue' = Append(updateQueue, SetState("completePhase"))
    /\ UNCHANGED <<value, isDefault, mounted, storage, disk, now, effectsPending,
                   effectRunning, interval, orphaned, ticks, ops, prev, last,
                   otherTools>>

\* The task in which React renders the updates queued by timer callbacks: the
\* passive effects still pending run first, then the queue is applied and the
\* result committed; the effects of this render are left for a later task.
RenderTask ==
    /\ mounted /\ updateQueue # <<>>
    /\ LET r == rendering(updateQueue)
       IN  /\ value' = r.state
           /\ isDefault' = FALSE
           /\ pending' = pending + r.timeouts
           /\ prev' = r.before
           /\ last' = Applied(updateQueue, r)
    /\ updateQueue' = <<>>
    /\ storage' = flushedStorage(storage)
    /\ interval' = flushedInterval
    /\ effectRunning' = value.isRunning
    /\ effectsPending' = TRUE
    /\ UNCHANGED <<mounted, disk, now, orphaned, ticks, ops, otherTools>>

\* The task in which React runs the passive effects of the last render: the
\* persist effect (part_000 43-50) and, when isRunning changed, the cleanup and
\* the setup of the interval effect (pomodoro.tsx 193-218).
FlushEffects ==
    /\ mounted /\ effectsPending
    /\ storage' = flushedStorage(storage)
    /\ interval' = flushedInterval
    /\ effectRunning' = value.isRunning
    /\ effectsPending' = FALSE
    /\ last' = [last EXCEPT !.wroteAt = now]
    /\ UNCHANGED <<value, isDefault, mounted, disk, now, updateQueue, pending,
                   orphaned, ticks, ops, prev, otherTools>>

\* A completion callback queued by an instance that has been unmounted since:
\* it plays the notification and its setState has no effect.
OrphanedCompletion ==
    /\ orphaned > 0
    /\ orphaned' = orphaned - 1
    /\ last' = [Op("orphanedCompletion") EXCEPT !.fired = TRUE]
    /\ prev' = value
    /\ UNCHANGED <<value, isDefault, mounted, storage, disk, now, updateQueue,
                   effectsPending, effectRunning, interval, pending, ticks, ops,
                   otherTools>>

\* An event handler that calls setState(u).  The update joins the queue; React
\* renders before the task ends (the pending passive effects first, then the
\* whole queue) and runs the effects of that render in the same task.
Handle(u) ==
    /\ mounted
    /\ LET q == Append(updateQueue, u)
           r == rendering(q)
       IN  /\ value' = r.state
           /\ isDefault' = FALSE
           /\ pending' = pending + r.timeouts
           /\ storage' = persistEffect(flushedStorage(storage), r.state, now, disk)
           /\ interval' = intervalEffect(value.isRunning, r.state.isRunning,
                                         flushedInterval)
           /\ effectRunning' = r.state.isRunning
           /\ prev' = r.before
           /\ last' = [Applied(q, r) EXCEPT !.wroteAt = now]
    /\ updateQueue' = <<>>
    /\ effectsPending' = FALSE
    /\ UNCHANGED <<mounted, disk, now, orphaned, ticks, otherTools>>

SwitchView(newMode) ==
    /\ ops + ticks < MaxEvents
    /\ ops' = ops + 1
    /\ Handle([SetState("switchView") EXCEPT !.mode = newMode])

\* The start/pause button (pomodoro.tsx 227-233).
ToggleHandler == Handle(SetState("toggle"))

Toggle == ops + ticks < MaxEvents /\ ops' = ops + 1 /\ ToggleHandler

Reset ==
    /\ ops + ticks < MaxEvents
    /\ ops' = ops + 1
    /\ Handle(SetState("reset"))

UpdateConfig(key, v) ==
    /\ ops + ticks < MaxEvents
    /\ ops' = ops + 1
    /\ Handle([SetState("updateConfig") EXCEPT !.key = key, !.arg = v])

\* resetAll = clearValue: localStorage.removeItem(key); setValue(defaultValue).
\* removeItem is not inside a try: with storage disabled it throws, the handler
\* ends there and setValue is not reached.  Otherwise React bails out of a
\* setState to the identical object: with nothing queued there is no render, and
\* a render that ends on the identical object runs no effect.
ResetAll ==
    /\ mounted /\ ops + ticks < MaxEvents
    /\ ops' = ops + 1
    /\ IF disk = "disabled"
       THEN /\ last' = [Op("resetAll") EXCEPT !.hadItem = storage.present,
                                              !.raised = TRUE]
            /\ prev' = value
            /\ UNCHANGED <<value, isDefault, storage, updateQueue, effectsPending,
                           effectRunning, interval, pending>>
       ELSE IF isDefault /\ updateQueue = <<>>
       THEN /\ last' = [Op("resetAll") EXCEPT !.hadItem = storage.present,
                                              !.workDone = 0]
            /\ prev' = value
            /\ storage' = NoItem
            /\ UNCHANGED <<value, isDefault, updateQueue, effectsPending, effectRunning,
                           interval, pending>>
       ELSE LET q == Append(updateQueue, SetState("resetAll"))
                r == rendering(q)
            IN  /\ last' = [Applied(q, r) EXCEPT !.hadItem = storage.present,
                                                 !.wroteAt = now]
                /\ prev' = r.before
                /\ value' = DEFAULT_STATE
                /\ isDefault' = TRUE
                /\ pending' = pending + r.timeouts
                /\ storage' = IF isDefault THEN flushedStorage(NoItem)
                              ELSE persistEffect(flushedStorage(NoItem), DEFAULT_STATE,
                                                 now, disk)
                /\ interval' = intervalEffect(value.isRunning, FALSE, flushedInterval)
                /\ updateQueue' = <<>>
                /\ effectsPending' = FALSE
                /\ effectRunning' = FALSE
    /\ UNCHANGED <<mounted, disk, now, orphaned, ticks, otherTools>>

\* The tool is left: the passive effects still pending run, the interval effect's
\* cleanup clears the interval and the queued updates are dropped; queued
\* timeouts are not cancelled.
Unmount ==
    /\ mounted /\ ops + ticks < MaxEvents
    /\ ops' = ops + 1
    /\ mounted' = FALSE
    /\ storage' = flushedStorage(storage)
    /\ interval' = 0
    /\ updateQueue' = <<>>
    /\ effectsPending' = FALSE
    /\ effectRunning' = FALSE
    /\ orphaned' = orphaned + pending
    /\ pending' = 0
    /\ value' = DEFAULT_STATE
    /\ isDefault' = TRUE
    /\ prev' = value
    /\ last' = Op("unmount")
    /\ UNCHANGED <<disk, now, ticks, otherTools>>

\* The tool is opened: the initializer restores from storage, then the effects of
\* the first render run (persist, interval).
Mount ==
    /\ ~mounted /\ ops + ticks < MaxEvents
    /\ ops' = ops + 1
    /\ mounted' = TRUE
    /\ value' = initialValue(storage, disk, now)
    /\ isDefault' = ~Readable(storage, disk)
    /\ storage' = persistEffect(storage, initialValue(storage, disk, now), now, disk)
    /\ interval' = intervalEffect(FALSE, initialValue(storage, disk, now).isRunning, 0)
    /\ effectRunning' = initialValue(storage, disk, now).isRunning
    /\ prev' = stateOf(storedWithDefaults(storage))
    /\ last' = [Op("mount") EXCEPT !.savedAt = storedWithDefaults(storage).savedAt,
                                   !.hadItem = Readable(storage, disk),
                                   !.readFailed = (disk = "disabled" \/ ~storage.parses),
                                   !.fields = storage.fields,
                                   !.legacy = storage.mode,
                                   !.wroteAt = now,
                                   !.workDone =
                                       initialValue(storage, disk, now).completedSessions]
    /\ UNCHANGED <<disk, now, updateQueue, effectsPending, pending, orphaned, ticks,
                   otherTools>>

\* Date.now() reads differently: time has passed, or the wall clock was set.
ClockChange(t) ==
    /\ t # now /\ ops + ticks < MaxEvents
    /\ now' = t
    /\ ops' = ops + 1
    /\ UNCHANGED <<value, isDefault, mounted, storage, disk, updateQueue,
                   effectsPending, effectRunning, interval, pending, orphaned, ticks, prev, last,
                   otherTools>>

-----------------------------------------------------------------------------
(* Construction *)

ShortConfig ==
    [work |-> 1, shortBreak |-> 1, longBreak |-> 1, sessionsBeforeLongBreak |-> 2]

SeedConfigs == {DEFAULT_CONFIG, ShortConfig}

\* What an earlier session of the tool can have left in storage: a snapshot of a
\* state it reached (every phase untouched, or the active phase one second from
\* its end, or all three), written by the persist effect at some clock reading.
SeedLow(low, m) == IF low = "none" THEN {} ELSE IF low = "active" THEN {m} ELSE Modes

SeedSnapshots ==
    { serializeState(
        [config            |-> c,
         activeMode        |-> m,
         viewMode          |-> m,
         timers            |-> [p \in Modes |->
                                   IF p \in SeedLow(low, m) THEN 1
                                   ELSE c[p] * SecondsPerMinute],
         isRunning         |-> r,
         completedSessions |-> n], s) :
        c \in SeedConfigs, m \in Modes, low \in {"none", "active", "all"}, r \in BOOLEAN,
        n \in 0..MaxSessions, s \in ClockTimes }

InitialStorage == {NoItem} \cup {Item(snap) : snap \in SeedSnapshots}

\* The state after the component is constructed over some storage content: the
\* initializer has run and so have the effects of the first render.
Constructed(store, d, t) ==
    /\ now = t
    /\ disk = d
    /\ crawl = Idle
    /\ smuggler = Idle
    /\ mounted = TRUE
    /\ value = initialValue(store, d, t)
    /\ isDefault = ~Readable(store, d)
    /\ storage = persistEffect(store, initialValue(store, d, t), t, d)
    /\ interval = intervalEffect(FALSE, initialValue(store, d, t).isRunning, 0)
    /\ updateQueue = <<>>
    /\ effectsPending = FALSE
    /\ effectRunning = initialValue(store, d, t).isRunning
    /\ pending = 0
    /\ orphaned = 0
    /\ ticks = 0
    /\ ops = 0
    /\ prev = stateOf(storedWithDefaults(store))
    /\ last = [op |-> "mount", key |-> "none", arg |-> 0, mode |-> "none",
               savedAt |-> storedWithDefaults(store).savedAt, at |-> t,
               fired |-> FALSE, hadItem |-> Readable(store, d), scheduled |-> 0,
               rendered |-> TRUE, wroteAt |-> t,
               raised |-> FALSE, readFailed |-> (d = "disabled" \/ ~store.parses),
               fields |-> store.fields, legacy |-> store.mode,
               workDone |-> initialValue(store, d, t).completedSessions]

\* Storage that works and holds nothing or a snapshot this version wrote.
Init == \E store \in InitialStorage, t \in ClockTimes : Constructed(store, "ok", t)

\* The interval callback, a queued completion callback, React's render and
\* React's run of the passive effects are separate tasks: when several are due
\* (a late interval callback, a throttled tab) the browser may run any of them
\* first, so they interleave freely.
Next ==
    \/ Tick
    \/ CompletePhase
    \/ RenderTask
    \/ FlushEffects
    \/ OrphanedCompletion
    \/ \E m \in Modes : SwitchView(m)
    \/ Toggle
    \/ Reset
    \/ ResetAll
    \/ \E k \in ConfigKeys, v \in ConfigValues : UpdateConfig(k, v)
    \/ Unmount
    \/ Mount
    \/ \E t \in ClockTimes : ClockChange(t)

Spec == Init /\ [][Next]_vars

-----------------------------------------------------------------------------
(* A countdown left alone: a freshly reset running phase and nothing but ticks *)

InitCountdown ==
    \E c \in SeedConfigs, m \in Modes, n \in 0..MaxSessions :
        /\ now \in ClockTimes
        /\ disk = "ok"
        /\ crawl = Idle
        /\ smuggler = Idle
        /\ mounted = TRUE
        /\ value = [config |-> c, activeMode |-> m, viewMode |-> m,
                    timers |-> getDefaultTimers(c), isRunning |-> TRUE,
                    completedSessions |-> n]
        /\ isDefault = FALSE
        /\ storage = persisted(value, now)
        /\ interval = 1
        /\ updateQueue = <<>>
        /\ effectsPending = FALSE
        /\ effectRunning = TRUE
        /\ pending = 0
        /\ orphaned = 0
        /\ ticks = 0
        /\ ops = 0
        /\ prev = [value EXCEPT !.isRunning = FALSE]
        /\ last = [op |-> "toggle", key |-> "none", arg |-> 0, mode |-> "none",
                   savedAt |-> 0, at |-> now, fired |-> FALSE, hadItem |-> FALSE,
                   scheduled |-> 0, rendered |-> TRUE, wroteAt |-> now, raised |-> FALSE, readFailed |-> FALSE,
                   fields |-> StoredFields, legacy |-> "none", workDone |-> n]

fullDuration(p, m) == p.config[m] * SecondsPerMinute

\* At most MaxQueue interval callbacks run before React renders.
NextCountdown ==
    \/ /\ ticks < fullDuration(value, value.activeMode)
       /\ Len(updateQueue) < MaxQueue
       /\ TickCallback
    \/ RenderTask
    \/ FlushEffects

SpecCountdown == InitCountdown /\ [][NextCountdown]_vars

-----------------------------------------------------------------------------
(* Full work/break cycles: each phase is started, counted down to zero by ticks
   and completed, with nothing else done *)

\* A fresh engine whose settings are c.
Fresh(c) == [DEFAULT_STATE EXCEPT !.config = c, !.timers = getDefaultTimers(c)]

InitCycles ==
    \E c \in SeedConfigs :
        Constructed(Item(serializeState(Fresh(c), 3000)), "ok", 3000)

\* Every task has run before the next one is due.
Settled == updateQueue = <<>> /\ ~effectsPending /\ pending = 0

\* The start button on a paused phase; work is started MaxWork times at most.
Start ==
    /\ ~value.isRunning /\ Settled
    /\ value.viewMode = "work" => last.workDone < MaxWork
    /\ ToggleHandler
    /\ UNCHANGED ops

NextCycles ==
    \/ Start
    \/ Settled /\ TickCallback
    \/ CompletePhase
    \/ RenderTask
    \/ FlushEffects

SpecCycles == InitCycles /\ [][NextCycles]_vars

-----------------------------------------------------------------------------
(* The settings inputs (pomodoro.tsx 430-494) *)

InputChars == {"-", "0", "1", "7", "a"}

\* The texts e.target.value can hold.
InputTexts == UNION {[1..n -> InputChars] : n \in 0..MaxLen}

IsDigit(c) == c \in {"0", "1", "7"}

DigitValue(c) == IF c = "0" THEN 0 ELSE IF c = "1" THEN 1 ELSE 7

\* The value of the run of decimal digits of text that starts at position i.
RECURSIVE digitRun(_, _, _)
digitRun(text, i, acc) ==
    IF i > Len(text) \/ ~IsDigit(text[i]) THEN acc
    ELSE digitRun(text, i + 1, acc * 10 + DigitValue(text[i]))

\* parseInt: an optional sign, then the leading digits; NaN when there is none.
parseInt(text) ==
    LET neg   == Len(text) > 0 /\ text[1] = "-"
        start == IF neg THEN 2 ELSE 1
        found == start <= Len(text) /\ IsDigit(text[start])
    IN  [nan |-> ~found,
         n   |-> IF ~found THEN 0
                 ELSE IF neg THEN 0 - digitRun(text, start, 0)
                 ELSE digitRun(text, start, 0)]

\* parsed || fallback: NaN and 0 are falsy.
orFallback(parsed, fallback) == IF parsed.nan \/ parsed.n = 0 THEN fallback ELSE parsed.n

InputFallback ==
    [work |-> 1, shortBreak |-> 1, longBreak |-> 1, sessionsBeforeLongBreak |-> 4]

InputMin ==
    [work |-> 1, shortBreak |-> 1, longBreak |-> 1, sessionsBeforeLongBreak |-> 2]

InputMax ==
    [work |-> 60, shortBreak |-> 30, longBreak |-> 60, sessionsBeforeLongBreak |-> 10]

\* The onChange handler of the input of key.
ChangeSetting(key, text) == UpdateConfig(key, orFallback(parseInt(text), InputFallback[key]))

InitSettings == \E t \in ClockTimes : Constructed(NoItem, "ok", t)

NextSettings == \E key \in ConfigKeys, text \in InputTexts : ChangeSetting(key, text)

SpecSettings == InitSettings /\ [][NextSettings]_vars

-----------------------------------------------------------------------------
(* The engine over storage that fails or holds what this version did not write *)

\* A text under the key that JSON.parse rejects.
Garbage == [NoItem EXCEPT !.present = TRUE, !.parses = FALSE]

\* The keys of older or partial layouts: one or both of activeMode and viewMode
\* missing, or an empty object.
PartialFields ==
    {StoredFields, StoredFields \ {"activeMode"}, StoredFields \ {"viewMode"},
     StoredFields \ {"activeMode", "viewMode"}, {}}

StorageSnapshots ==
    {snap \in SeedSnapshots :
        /\ snap.config = ShortConfig
        /\ snap.timers[snap.activeMode] = 1
        /\ \A p \in Modes \ {snap.activeMode} : snap.timers[p] = 60
        /\ snap.completedSessions = 0
        /\ snap.savedAt = 3000}

StorageContents ==
    {NoItem, Garbage} \cup
    {[Item(snap) EXCEPT !.fields = f, !.mode = m] :
        snap \in StorageSnapshots, f \in PartialFields, m \in Modes \cup {"none"}}

InitStorage ==
    \E store \in StorageContents, d \in Disks, t \in ClockTimes :
        Constructed(store, d, t)

SpecStorage == InitStorage /\ [][Next]_vars

-----------------------------------------------------------------------------
(* crawlUrls (pomodoro-timer.tsx 589-670) *)

\* A normalized URL: its hostname and which page of that host it is.
Url(d, n) == [domain |-> d, page |-> n]

extractDomain(url) == url.domain

\* The URLs of the small sites, and those of a site whose start page has more
\* links than the crawler takes from one page.
SmallUrls == {Url("a", 0), Url("a", 1), Url("b", 0)}
HubUrls == {Url("a", n) : n \in 0..(LinkLimit + 1)}
Urls == SmallUrls \cup HubUrls

\* The normalized hrefs of a page's anchors, in document order, repeats included.
AnchorLists == UNION {[1..n -> SmallUrls] : n \in 0..MaxAnchors}

SmallSites ==
    {[u \in Urls |-> IF u = Url("a", 0) THEN x
                     ELSE IF u = Url("a", 1) THEN y
                     ELSE <<>>] : x, y \in AnchorLists}

HubSite ==
    [u \in Urls |-> IF u = Url("a", 0) THEN [i \in 1..(LinkLimit + 1) |-> Url("a", i)]
                    ELSE IF u = Url("a", 1) THEN <<Url("a", 0), Url("a", 2), Url("a", 0)>>
                    ELSE <<>>]

Sites == SmallSites \cup {HubSite}

\* fetchAndExtractLinks: the hrefs in order, each kept once (links.includes).
RECURSIVE pushNew(_, _, _)
pushNew(anchors, i, links) ==
    IF i > Len(anchors) THEN links
    ELSE pushNew(anchors, i + 1,
                 IF \E j \in DOMAIN links : links[j] = anchors[i] THEN links
                 ELSE Append(links, anchors[i]))

fetchAndExtractLinks(site, url) == pushNew(site[url], 1, <<>>)

\* Mutant: every link of the page is taken.
limitedLinksAll(links) == links

\* links.slice(0, 25)
limitedLinks(links) ==
    SubSeq(links, 1, IF Len(links) < LinkLimit THEN Len(links) ELSE LinkLimit)

\* createNode, without the label and the random position.
createNode(url, depth, startDomain) ==
    [id |-> url, depth |-> depth, isExternal |-> extractDomain(url) # startDomain]

\* The for loop over limitedLinks (pomodoro-timer.tsx 644-657) on the locals c.
RECURSIVE addLinks(_, _, _, _)
addLinks(c, url, depth, links) ==
    IF links = <<>> THEN c
    ELSE LET link  == Head(links)
             edge  == [source |-> url, target |-> link]
             nodes == IF \E n \in c.nodes : n.id = link THEN c.nodes
                      ELSE c.nodes \cup {createNode(link, depth + 1, c.startDomain)}
             edges == IF \E i \in DOMAIN c.edges : c.edges[i] = edge THEN c.edges
                      ELSE Append(c.edges, edge)
             queue == IF link \notin c.visited /\ extractDomain(link) = c.startDomain
                      THEN Append(c.queue, [url |-> link, depth |-> depth + 1])
                      ELSE c.queue
         IN  addLinks([c EXCEPT !.nodes = nodes, !.edges = edges, !.queue = queue],
                      url, depth, Tail(links))

\* The Pomodoro tool is not open.
EngineUnused ==
    /\ value = DEFAULT_STATE /\ isDefault = TRUE /\ mounted = FALSE
    /\ storage = NoItem /\ disk = "ok" /\ now = 3000
    /\ updateQueue = <<>> /\ effectsPending = FALSE /\ effectRunning = FALSE
    /\ interval = 0 /\ pending = 0 /\ orphaned = 0 /\ ticks = 0 /\ ops = 0
    /\ prev = DEFAULT_STATE
    /\ last = [op |-> "unmount", key |-> "none", arg |-> 0, mode |-> "none",
               savedAt |-> 0, at |-> 3000, fired |-> FALSE, hadItem |-> FALSE,
               scheduled |-> 0, rendered |-> TRUE, wroteAt |-> 3000, raised |-> FALSE, readFailed |-> FALSE,
               fields |-> StoredFields, legacy |-> "none", workDone |-> 0]

\* crawlUrls(startUrl, maxDepth) called on a site: the locals before the loop.
InitCrawl ==
    /\ \E site \in Sites, maxDepth \in 1..MaxDepth :
          crawl = [pc         |-> "loop",
                   site        |-> site,
                   startUrl    |-> Url("a", 0),
                   maxDepth    |-> maxDepth,
                   startDomain |-> extractDomain(Url("a", 0)),
                   nodes       |-> {createNode(Url("a", 0), 0, extractDomain(Url("a", 0)))},
                   edges       |-> <<>>,
                   visited     |-> {},
                   queue       |-> <<[url |-> Url("a", 0), depth |-> 0]>>,
                   url         |-> Url("a", 0),
                   depth       |-> 0,
                   fetched     |-> <<>>]
    /\ smuggler = Idle
    /\ EngineUnused

\* One pass of the while loop up to the fetch: queue.shift(), the visited test,
\* the depth and domain test.  `fetched` records the calls of fetchAndExtractLinks.
CrawlDequeue ==
    /\ crawl.pc = "loop" /\ crawl.queue # <<>>
    /\ LET item == Head(crawl.queue)
           rest == [crawl EXCEPT !.queue = Tail(crawl.queue)]
       IN  crawl' =
               IF item.url \in crawl.visited THEN rest
               ELSE IF item.depth >= crawl.maxDepth
                       \/ extractDomain(item.url) # crawl.startDomain
               THEN [rest EXCEPT !.visited = @ \cup {item.url}]
               ELSE [rest EXCEPT !.visited = @ \cup {item.url},
                                 !.pc = "fetch",
                                 !.url = item.url,
                                 !.depth = item.depth,
                                 !.fetched = Append(@, item)]
    /\ UNCHANGED <<engineVars, smuggler>>

\* The awaited fetch settles: the links are added, or the catch logs the failure.
CrawlFetched(ok) ==
    /\ crawl.pc = "fetch"
    /\ crawl' =
           IF ok
           THEN addLinks([crawl EXCEPT !.pc = "loop"], crawl.url, crawl.depth,
                         limitedLinks(fetchAndExtractLinks(crawl.site, crawl.url)))
           ELSE [crawl EXCEPT !.pc = "loop"]
    /\ UNCHANGED <<engineVars, smuggler>>

\* The queue is empty: crawlUrls returns its nodes and edges.
CrawlReturn ==
    /\ crawl.pc = "loop" /\ crawl.queue = <<>>
    /\ crawl' = [crawl EXCEPT !.pc = "done"]
    /\ UNCHANGED <<engineVars, smuggler>>

NextCrawl ==
    \/ CrawlDequeue
    \/ \E ok \in BOOLEAN : CrawlFetched(ok)
    \/ CrawlReturn

\* Every awaited fetch and delay settles, so the loop always goes on.
SpecCrawl == InitCrawl /\ [][NextCrawl]_vars /\ WF_vars(NextCrawl)

-----------------------------------------------------------------------------
(* The emoji smuggler (emoji-smuggler.tsx 9-73).  A string is the sequence of the
   code points a for...of loop over it yields; a lone surrogate is one of them. *)

\* 0xFE00..0xFE0F carry the bytes 0..15, 0xE0100..0xE01EF the bytes 16..255.
byteToVariationSelector(byte) ==
    IF byte < 16 THEN 65024 + byte ELSE 917760 + (byte - 16)

null == -1

variationSelectorToByte(codePoint) ==
    IF codePoint >= 65024 /\ codePoint <= 65039 THEN codePoint - 65024
    ELSE IF codePoint >= 917760 /\ codePoint <= 917999 THEN codePoint - 917760 + 16
    ELSE null

IsSurrogate(cp) == cp >= 55296 /\ cp <= 57343

\* The UTF-8 bytes of a scalar value.
utf8(cp) ==
    IF cp < 128 THEN <<cp>>
    ELSE IF cp < 2048 THEN <<192 + (cp \div 64), 128 + (cp % 64)>>
    ELSE IF cp < 65536
         THEN <<224 + (cp \div 4096), 128 + ((cp \div 64) % 64), 128 + (cp % 64)>>
    ELSE <<240 + (cp \div 262144), 128 + ((cp \div 4096) % 64),
           128 + ((cp \div 64) % 64), 128 + (cp % 64)>>

\* new TextEncoder().encode(message): a lone surrogate is encoded as U+FFFD.
RECURSIVE TextEncoderEncode(_)
TextEncoderEncode(message) ==
    IF message = <<>> THEN <<>>
    ELSE utf8(IF IsSurrogate(Head(message)) THEN 65533 ELSE Head(message))
         \o TextEncoderEncode(Tail(message))

\* The UTF-8 decoder of the Encoding standard, from byte i on: d holds the code
\* point being assembled, the continuation bytes needed and seen, and the range
\* allowed for the next byte.  A malformed sequence yields U+FFFD and the byte
\* that broke it is read again.
Utf8Start == [cp |-> 0, needed |-> 0, seen |-> 0, lower |-> 128, upper |-> 191]

RECURSIVE utf8Decode(_, _, _, _)
utf8Decode(bytes, i, d, out) ==
    IF i > Len(bytes)
    THEN IF d.needed # 0 THEN Append(out, 65533) ELSE out
    ELSE LET b == bytes[i]
         IN  IF d.needed = 0
             THEN IF b <= 127 THEN utf8Decode(bytes, i + 1, d, Append(out, b))
                  ELSE IF b >= 194 /\ b <= 223
                  THEN utf8Decode(bytes, i + 1,
                                  [d EXCEPT !.needed = 1, !.cp = b % 32], out)
                  ELSE IF b >= 224 /\ b <= 239
                  THEN utf8Decode(bytes, i + 1,
                                  [d EXCEPT !.needed = 2, !.cp = b % 16,
                                            !.lower = IF b = 224 THEN 160 ELSE 128,
                                            !.upper = IF b = 237 THEN 159 ELSE 191],
                                  out)
                  ELSE IF b >= 240 /\ b <= 244
                  THEN utf8Decode(bytes, i + 1,
                                  [d EXCEPT !.needed = 3, !.cp = b % 8,
                                            !.lower = IF b = 240 THEN 144 ELSE 128,
                                            !.upper = IF b = 244 THEN 143 ELSE 191],
                                  out)
                  ELSE utf8Decode(bytes, i + 1, d, Append(out, 65533))
             ELSE IF b < d.lower \/ b > d.upper
             THEN utf8Decode(bytes, i, Utf8Start, Append(out, 65533))
             ELSE IF d.seen + 1 = d.needed
             THEN utf8Decode(bytes, i + 1, Utf8Start, Append(out, d.cp * 64 + (b % 64)))
             ELSE utf8Decode(bytes, i + 1,
                             [d EXCEPT !.cp = d.cp * 64 + (b % 64), !.seen = @ + 1,
                                       !.lower = 128, !.upper = 191],
                             out)

\* new TextDecoder().decode(bytes): not fatal, and ignoreBOM is false, so a leading
\* U+FEFF is dropped.
TextDecoderDecode(bytes) ==
    LET decoded == utf8Decode(bytes, 1, Utf8Start, <<>>)
    IN  IF decoded # <<>> /\ Head(decoded) = 65279 THEN Tail(decoded) ELSE decoded

RECURSIVE selectors(_)
selectors(bytes) ==
    IF bytes = <<>> THEN <<>>
    ELSE <<byteToVariationSelector(Head(bytes))>> \o selectors(Tail(bytes))

encode(base, message) == base \o selectors(TextEncoderEncode(message))

\* The for...of loop of decode (emoji-smuggler.tsx 44-60) from position i on.
RECURSIVE decodeLoop(_, _, _, _, _)
decodeLoop(text, i, bytes, base, foundFirst) ==
    IF i > Len(text) THEN [bytes |-> bytes, base |-> base]
    ELSE IF variationSelectorToByte(text[i]) # null
    THEN decodeLoop(text, i + 1, Append(bytes, variationSelectorToByte(text[i])),
                    base, TRUE)
    ELSE IF ~foundFirst
    THEN decodeLoop(text, i + 1, bytes, Append(base, text[i]), foundFirst)
    ELSE [bytes |-> bytes, base |-> base]

\* decode: `found` is FALSE for the null result.
decode(text) ==
    LET r == decodeLoop(text, 1, <<>>, <<>>, FALSE)
    IN  IF r.bytes = <<>>
        THEN [found |-> FALSE, base |-> <<>>, message |-> <<>>]
        ELSE [found |-> TRUE, base |-> r.base, message |-> TextDecoderDecode(r.bytes)]

\* A, e acute, the euro sign, an emoji outside the BMP, the byte order mark, a lone
\* high surrogate, and the variation selectors of the bytes 15 and 16.
CodePoints == {65, 233, 8364, 128512, 65279, 55357, 65039, 917760}

Messages == UNION {[1..n -> CodePoints] : n \in 1..MaxLen}

Bases ==
    UNION {[1..n -> {cp \in CodePoints : variationSelectorToByte(cp) = null}] :
              n \in 0..MaxLen}

InitSmuggler ==
    /\ \E base \in Bases, message \in Messages :
          smuggler = [pc |-> "input", base |-> base, message |-> message,
                      text |-> <<>>, result |-> decode(<<>>)]
    /\ crawl = Idle
    /\ EngineUnused

Encode ==
    /\ smuggler.pc = "input"
    /\ smuggler' = [smuggler EXCEPT !.pc = "encoded",
                                    !.text = encode(smuggler.base, smuggler.message)]
    /\ UNCHANGED <<engineVars, crawl>>

Decode ==
    /\ smuggler.pc = "encoded"
    /\ smuggler' = [smuggler EXCEPT !.pc = "decoded", !.result = decode(smuggler.text)]
    /\ UNCHANGED <<engineVars, crawl>>

NextSmuggler == Encode \/ Decode

SpecSmuggler == InitSmuggler /\ [][NextSmuggler]_vars

-----------------------------------------------------------------------------
(* Properties *)

\* The whole seconds in a span of ms milliseconds, rounded down, stated without
\* division: the e with e*1000 <= ms < (e+1)*1000.
WholeSeconds(ms) == CHOOSE e \in -10..10 : e * 1000 <= ms /\ ms < (e + 1) * 1000

Restored == last.op = "mount" /\ last.hadItem

\* C1: after completePhase activeMode and viewMode are the same next phase: from
\* work it is longBreak when (completedSessions before + 1) is a multiple of
\* sessionsBeforeLongBreak and shortBreak otherwise; from a break it is work and
\* completedSessions is unchanged.
C1_NextPhase ==
    last.op = "completePhase" =>
        /\ value.activeMode = value.viewMode
        /\ prev.activeMode = "work" =>
              value.activeMode =
                  IF (prev.completedSessions + 1) % prev.config.sessionsBeforeLongBreak = 0
                  THEN "longBreak" ELSE "shortBreak"
        /\ prev.activeMode # "work" =>
              /\ value.activeMode = "work"
              /\ value.completedSessions = prev.completedSessions

C1_Witness ==
    /\ last.op = "completePhase"
    /\ prev.activeMode = "work"
    /\ prev.completedSessions = 1
    /\ prev.config.sessionsBeforeLongBreak = 2
    /\ value.activeMode = "longBreak"

\* C2: from a freshly reset running phase, ticks alone keep remaining[activeMode]
\* at the full duration minus the ticks applied, above zero and with no completion
\* scheduled, until the tick numbered config[activeMode]*60, which leaves it at 0
\* with exactly one completePhase scheduled.  A tick is applied once its update
\* is rendered; its updater has been called unless it still waits in the queue
\* for the render to call it.
C2_Countdown ==
    LET full    == value.config[value.activeMode] * 60
        applied == ticks - Len(updateQueue)
        called  == ticks - Len(SelectSeq(updateQueue, LAMBDA u : ~u.eager))
    IN  /\ value.timers[value.activeMode] = full - applied
        /\ applied < full => value.timers[value.activeMode] > 0
        /\ pending = IF called = full THEN 1 ELSE 0

C2_Witness ==
    /\ ticks = value.config[value.activeMode] * 60
    /\ ticks = 1500
    /\ updateQueue = <<>>
    /\ value.timers[value.activeMode] = 0
    /\ pending = 1

\* C3: each arrival of remaining[activeMode] at 0 runs completePhase once: a tick
\* that fires before the deferred completePhase has run schedules no second
\* completion, so no two completions are ever queued together.
C3_SingleCompletion == pending <= 1

\* C4: in every reachable state every phase p has 0 <= remaining[p] <= config[p]*60.
C4_RemainingInRange ==
    mounted => \A p \in Modes :
        0 <= value.timers[p] /\ value.timers[p] <= value.config[p] * 60

\* C5: resetAll restores the initial state computed from the config current at
\* the call, and leaves that config as the user set it.
C5_ResetAllKeepsConfig ==
    last.op = "resetAll" =>
        /\ value.config = prev.config
        /\ value.timers = [p \in Modes |-> prev.config[p] * 60]
        /\ value.activeMode = "work" /\ value.viewMode = "work"
        /\ ~value.isRunning
        /\ value.completedSessions = 0

\* C6: once resetAll and the effects it triggers have run, the storage key is
\* absent: the persist effect has not written it back.
C6_KeyAbsentAfterResetAll == last.op = "resetAll" => ~storage.present

\* C7: updateConfig leaves remaining[p] as it was for every phase p that is
\* mid-countdown (0 < remaining[p] < old config[p]*60), whichever field is edited
\* and whether or not the timer runs.
C7_MidCountdownKept ==
    last.op = "updateConfig" =>
        \A p \in Modes :
            (0 < prev.timers[p] /\ prev.timers[p] < prev.config[p] * 60)
                => value.timers[p] = prev.timers[p]

C7_Witness ==
    /\ last.op = "updateConfig"
    /\ prev.isRunning
    /\ last.key = prev.activeMode
    /\ last.arg # prev.config[last.key]
    /\ 0 < prev.timers[last.key]
    /\ prev.timers[last.key] < prev.config[last.key] * 60
    /\ value.timers[last.key] = prev.timers[last.key]

\* C8: updateConfig(field, value) sets config[field] to value and gives every
\* phase that was pristine (remaining[p] = old config[p]*60) the new full duration
\* config[p]*60, phases never started and a session count of 0 included.
C8_PristineResized ==
    last.op = "updateConfig" =>
        /\ value.config[last.key] = last.arg
        /\ \A k \in ConfigKeys \ {last.key} : value.config[k] = prev.config[k]
        /\ \A p \in Modes :
              prev.timers[p] = prev.config[p] * 60
                  => value.timers[p] = value.config[p] * 60

C8_Witness ==
    /\ last.op = "updateConfig"
    /\ prev.completedSessions = 0
    /\ last.key \in Modes
    /\ last.key # prev.activeMode
    /\ prev.timers[last.key] = prev.config[last.key] * 60
    /\ last.arg # prev.config[last.key]
    /\ value.timers[last.key] = last.arg * 60

\* C9: restoring a snapshot that was running takes floor((now - savedAt)/1000)
\* seconds off remaining[activeMode], stopping at 0, keeps the other phases and,
\* short of 0, keeps running; restoring a paused snapshot keeps every remaining
\* value whatever time has elapsed.
C9_RestoreCatchUp ==
    Restored =>
        LET elapsed  == WholeSeconds(last.at - last.savedAt)
            expected == Max(0, prev.timers[prev.activeMode] - elapsed)
        IN  /\ prev.isRunning =>
                  /\ value.timers[prev.activeMode] = expected
                  /\ \A p \in Modes \ {prev.activeMode} :
                        value.timers[p] = prev.timers[p]
                  /\ expected > 0 => value.isRunning
            /\ ~prev.isRunning => value.timers = prev.timers /\ ~value.isRunning

C9_Witness ==
    /\ Restored
    /\ prev.isRunning
    /\ last.at - last.savedAt = 1500
    /\ prev.timers[prev.activeMode] = 1500
    /\ value.timers[prev.activeMode] = 1499
    /\ value.isRunning

\* C10: restoring a running snapshot whose elapsed seconds reach its
\* remaining[activeMode] gives remaining[activeMode] = 0 and isRunning = false with
\* activeMode, viewMode and completedSessions as persisted; the notifier is not
\* fired and no completion is scheduled.
C10_NoRetroactiveCompletion ==
    (/\ Restored
     /\ prev.isRunning
     /\ WholeSeconds(last.at - last.savedAt) >= prev.timers[prev.activeMode]) =>
        /\ value.timers[prev.activeMode] = 0
        /\ ~value.isRunning
        /\ interval = 0
        /\ value.activeMode = prev.activeMode
        /\ value.viewMode = prev.viewMode
        /\ value.completedSessions = prev.completedSessions
        /\ ~last.fired
        /\ pending = 0

C10_Witness ==
    /\ Restored
    /\ prev.isRunning
    /\ prev.activeMode = "work"
    /\ prev.timers["work"] = 1
    /\ WholeSeconds(last.at - last.savedAt) = 4
    /\ prev.completedSessions = 1
    /\ value.timers["work"] = 0
    /\ ~value.isRunning

\* C11: toggle flips isRunning; starting sets activeMode to the displayed phase,
\* pausing leaves activeMode alone even when another phase is displayed; viewMode,
\* the remaining times, completedSessions and config are unchanged.
C11_Toggle ==
    last.op = "toggle" =>
        /\ value.isRunning = ~prev.isRunning
        /\ ~prev.isRunning => value.activeMode = prev.viewMode
        /\ prev.isRunning => value.activeMode = prev.activeMode
        /\ value.viewMode = prev.viewMode
        /\ value.timers = prev.timers
        /\ value.completedSessions = prev.completedSessions
        /\ value.config = prev.config

C11_Witness ==
    /\ last.op = "toggle"
    /\ prev.isRunning
    /\ prev.viewMode # prev.activeMode
    /\ ~value.isRunning
    /\ value.activeMode = prev.activeMode

\* C12: switchView(phase) changes viewMode and nothing else, also while a
\* different phase is running.
C12_SwitchViewFrame ==
    last.op = "switchView" =>
        /\ value.viewMode = last.mode
        /\ value.isRunning = prev.isRunning
        /\ value.activeMode = prev.activeMode
        /\ value.timers = prev.timers
        /\ value.completedSessions = prev.completedSessions
        /\ value.config = prev.config

C12_Witness ==
    /\ last.op = "switchView"
    /\ prev.isRunning
    /\ last.mode # prev.activeMode
    /\ last.mode # prev.viewMode
    /\ value.isRunning
    /\ value.viewMode = last.mode

\* C13: a tick of a running timer changes only remaining[activeMode]: above 1 it
\* goes down by 1 and nothing is scheduled; at 1 or below it becomes 0 and one
\* completePhase is scheduled; the other phases, viewMode, activeMode, isRunning,
\* completedSessions and config are unchanged.
C13_Tick ==
    (last.op = "tick" /\ prev.isRunning) =>
        LET a == prev.activeMode
        IN  /\ prev.timers[a] > 1 => /\ value.timers[a] = prev.timers[a] - 1
                                     /\ last.scheduled = 0
            /\ prev.timers[a] <= 1 => /\ value.timers[a] = 0
                                      /\ last.scheduled = 1
            /\ \A p \in Modes \ {a} : value.timers[p] = prev.timers[p]
            /\ value.viewMode = prev.viewMode
            /\ value.activeMode = prev.activeMode
            /\ value.isRunning
            /\ value.completedSessions = prev.completedSessions
            /\ value.config = prev.config

C13_Witness ==
    /\ last.op = "tick"
    /\ prev.isRunning
    /\ prev.viewMode # prev.activeMode
    /\ prev.timers[prev.activeMode] = 1
    /\ prev.timers[prev.viewMode] = 1
    /\ value.timers[prev.activeMode] = 0
    /\ last.scheduled = 1
    /\ pending = 1

\* C14: a tick applied to a state whose isRunning is false changes no field of it
\* and schedules no completion.
C14_NoTickWhilePaused ==
    (last.op = "tick" /\ ~prev.isRunning) => (value = prev /\ last.scheduled = 0)

\* C15: completePhase sets isRunning to false and refills the phase that finished
\* (activeMode before the call) to config[phase]*60; the other two remaining times
\* and the config are unchanged.
C15_CompletionRefill ==
    last.op = "completePhase" =>
        /\ ~value.isRunning
        /\ value.timers[prev.activeMode] = prev.config[prev.activeMode] * 60
        /\ \A p \in Modes \ {prev.activeMode} : value.timers[p] = prev.timers[p]
        /\ value.config = prev.config

C15_Witness ==
    /\ last.op = "completePhase"
    /\ prev.isRunning
    /\ prev.activeMode = "work"
    /\ prev.timers["work"] = 0
    /\ prev.timers["shortBreak"] = 1
    /\ value.timers["work"] = 1500
    /\ value.timers["shortBreak"] = 1
    /\ ~value.isRunning

\* C16: after any completePhase the engine is paused and the phase displayed
\* (viewMode = activeMode = next phase) has its full duration config[next]*60,
\* even if that phase was partly consumed earlier.
C16_NextPhasePrimed ==
    last.op = "completePhase" =>
        /\ ~value.isRunning
        /\ value.viewMode = value.activeMode
        /\ value.timers[value.activeMode] = value.config[value.activeMode] * 60

\* C17: reset sets isRunning to false and remaining[viewMode] to
\* config[viewMode]*60 and leaves the other two remaining times, activeMode,
\* viewMode, completedSessions and config unchanged, also when the displayed phase
\* is not the running one.
C17_Reset ==
    last.op = "reset" =>
        /\ ~value.isRunning
        /\ value.timers[prev.viewMode] = prev.config[prev.viewMode] * 60
        /\ \A p \in Modes \ {prev.viewMode} : value.timers[p] = prev.timers[p]
        /\ value.activeMode = prev.activeMode
        /\ value.viewMode = prev.viewMode
        /\ value.completedSessions = prev.completedSessions
        /\ value.config = prev.config

C17_Witness ==
    /\ last.op = "reset"
    /\ prev.isRunning
    /\ prev.viewMode # prev.activeMode
    /\ prev.timers[prev.viewMode] = 1
    /\ prev.timers[prev.activeMode] = 1
    /\ value.timers[prev.viewMode] = prev.config[prev.viewMode] * 60
    /\ value.timers[prev.activeMode] = 1

\* C18: with no snapshot in storage the engine is created with activeMode =
\* viewMode = work, isRunning false, completedSessions 0 and remaining[p] =
\* config[p]*60 for each phase.
C18_InitialState ==
    (last.op = "mount" /\ ~last.hadItem) =>
        /\ value.activeMode = "work"
        /\ value.viewMode = "work"
        /\ ~value.isRunning
        /\ value.completedSessions = 0
        /\ \A p \in Modes : value.timers[p] = value.config[p] * 60

C18_Witness ==
    /\ last.op = "mount" /\ ~last.hadItem
    /\ mounted
    /\ value.config.work = 25
    /\ value.timers = [work |-> 1500, shortBreak |-> 300, longBreak |-> 900]

\* C19: after each of switchView, toggle, tick, completePhase, reset and
\* updateConfig, once the effects of its render have run, the stored snapshot is
\* the resulting state with a savedAt read at that write.
C19_Persisted ==
    (mounted /\ ~effectsPending
     /\ last.op \in {"switchView", "toggle", "tick", "completePhase",
                     "reset", "updateConfig"}) =>
        /\ storage.present
        /\ stateOf(storage.item) = value
        /\ storage.item.savedAt = last.wroteAt

C19_Witness ==
    /\ mounted /\ ~effectsPending
    /\ last.op = "tick"
    /\ ops = 1
    /\ last.wroteAt = 7500
    /\ storage.present
    /\ storage.item.savedAt = 7500
    /\ stateOf(storage.item) = value
    /\ value # prev

\* C20: exactly one interval exists while the mounted engine is running and none
\* otherwise: it is cleared when isRunning becomes false and when the tool is
\* unmounted.
C20_OneInterval ==
    interval = IF mounted /\ value.isRunning THEN 1 ELSE 0

\* C21: the state in which the zeroing tick left remaining[activeMode] at 0 with
\* isRunning still true has been rendered before completePhase is applied to it:
\* no render applies the zeroing tick and the completion together.
C21_ZeroStateFirst ==
    (/\ last.op = "completePhase"
     /\ prev.isRunning
     /\ prev.timers[prev.activeMode] = 0) => last.rendered

\* C22: when reading the key at construction fails (storage disabled, or the
\* stored text is not valid JSON) nothing is raised: the engine is constructed in
\* the default initial state.
C22_ReadFailureFallsBack ==
    (last.op = "mount" /\ last.readFailed) =>
        /\ mounted
        /\ ~last.raised
        /\ value = DEFAULT_STATE

C22_Witness ==
    /\ last.op = "mount" /\ last.readFailed
    /\ disk = "disabled"
    /\ storage.present /\ storage.parses
    /\ storage.item.isRunning
    /\ storage.item.activeMode = "shortBreak"
    /\ mounted
    /\ value = DEFAULT_STATE

\* C23: no operation raises when a storage write or removal fails, and resetAll
\* still leaves the in-memory state it is meant to produce.
C23_WriteFailureContained ==
    /\ ~last.raised
    /\ last.op = "resetAll" =>
           /\ ~value.isRunning
           /\ value.activeMode = "work" /\ value.viewMode = "work"
           /\ value.completedSessions = 0

\* C24: a restored snapshot that lacks activeMode or viewMode gets the missing one
\* from its legacy mode key, and work only when that key is absent too.
C24_LegacyMode ==
    Restored =>
        LET fallback == IF last.legacy # "none" THEN last.legacy ELSE "work"
        IN  /\ "activeMode" \notin last.fields => value.activeMode = fallback
            /\ "viewMode" \notin last.fields => value.viewMode = fallback

\* C25: whatever text is typed into a settings input, the config the engine holds
\* has every duration between 1 and its input's max and sessionsBeforeLongBreak
\* between 2 and its input's max.
C25_ConfigInRange ==
    \A k \in ConfigKeys : InputMin[k] <= value.config[k] /\ value.config[k] <= InputMax[k]

\* C26: completedSessions is the number of completions of a work phase (counted
\* on from a restored count, from 0 after resetAll): a completePhase that finishes
\* work adds exactly 1, no other operation changes it, and the k-th work
\* completion leads to longBreak exactly when k is a multiple of
\* sessionsBeforeLongBreak, to shortBreak otherwise.
C26_SessionCount ==
    mounted =>
        /\ value.completedSessions = last.workDone
        /\ last.op = "completePhase" =>
               value.completedSessions =
                   IF prev.activeMode = "work" THEN prev.completedSessions + 1
                   ELSE prev.completedSessions
        /\ last.op \in {"tick", "toggle", "switchView", "reset", "updateConfig"} =>
               value.completedSessions = prev.completedSessions
        /\ (last.op = "completePhase" /\ prev.activeMode = "work") =>
               value.activeMode =
                   IF last.workDone % prev.config.sessionsBeforeLongBreak = 0
                   THEN "longBreak" ELSE "shortBreak"

C26_Witness ==
    /\ last.op = "completePhase"
    /\ prev.activeMode = "work"
    /\ prev.config = DEFAULT_CONFIG
    /\ last.workDone = 4
    /\ ticks = 4 * 1500 + 3 * 300
    /\ value.completedSessions = 4
    /\ value.activeMode = "longBreak"

\* C27: completePhase only runs against a state in which the active phase reads
\* 0: a completion left stale by a pause, reset, restart, config edit or resetAll
\* made after the zeroing tick does not run the phase change.
C27_NoStaleCompletion ==
    last.op = "completePhase" => prev.timers[prev.activeMode] = 0

\* C28: restoring never increases a remaining time, whatever the clock reads at
\* load, a reading earlier than savedAt included.
C28_RestoreNeverIncreases ==
    Restored => \A p \in Modes : value.timers[p] <= prev.timers[p]

\* C29: a crawl fetches no URL twice and only URLs of the start domain dequeued
\* at a depth below maxDepth; in the result every edge joins two returned nodes,
\* no edge is repeated, no source has more than 25 edges and every node's depth
\* is between 0 and maxDepth; and every crawl of a finite site returns.
C29_CrawlSafe ==
    crawl.pc # "idle" =>
        /\ \A i, j \in DOMAIN crawl.fetched :
               crawl.fetched[i].url = crawl.fetched[j].url => i = j
        /\ \A i \in DOMAIN crawl.fetched :
               /\ crawl.fetched[i].url.domain = crawl.startUrl.domain
               /\ crawl.fetched[i].depth < crawl.maxDepth
        /\ crawl.pc = "done" =>
               LET ids == {n.id : n \in crawl.nodes}
               IN  /\ \A i \in DOMAIN crawl.edges :
                          crawl.edges[i].source \in ids /\ crawl.edges[i].target \in ids
                   /\ \A i, j \in DOMAIN crawl.edges :
                          crawl.edges[i] = crawl.edges[j] => i = j
                   /\ \A u \in ids :
                          Cardinality({i \in DOMAIN crawl.edges :
                                          crawl.edges[i].source = u}) <= 25
                   /\ \A n \in crawl.nodes : 0 <= n.depth /\ n.depth <= crawl.maxDepth

C29_Crawl == []C29_CrawlSafe /\ <>(crawl.pc = "done")

C29_Witness ==
    /\ crawl.pc = "done"
    /\ crawl.site = HubSite
    /\ crawl.maxDepth = 2
    /\ Len(crawl.fetched) = 26
    /\ Cardinality(crawl.nodes) = 26
    /\ Len(crawl.edges) = 27
    /\ \A n \in crawl.nodes : n.id # Url("a", 26)

\* C30: every byte survives the trip through its variation selector, and decoding
\* the encoding of a non-empty message behind a base without variation selectors
\* gives back that base and that message.
C30_RoundTrip ==
    /\ \A b \in 0..255 : variationSelectorToByte(byteToVariationSelector(b)) = b
    /\ smuggler.pc = "decoded" =>
           smuggler.result =
               [found |-> TRUE, base |-> smuggler.base, message |-> smuggler.message]

====
